---- MODULE Spec2Model ----
(***************************************************************************)
(* Model of scripts/similiar_artists.py: a single sequential script that   *)
(* tallies a listening history, picks a seed artist, expands the related-  *)
(* artist graph through a remote catalogue service, and exports an edge    *)
(* table (links.xlsx) and a node table (points.xlsx).                      *)
(*                                                                         *)
(* The listening history (df) and the service's answers are inputs; they   *)
(* are drawn from bounded sets in Init and never change afterwards.        *)
(***************************************************************************)
EXTENDS Integers, Sequences, FiniteSets, TLC

\* ------------------------------------------------------------------ bounds
NumIds == 3        \* artist ids known to the service are 1..NumIds
MaxRel == 4        \* longest related-artists list the service returns
MaxRows == 3       \* longest enumerated listening history
MaxRuns == 2       \* how many times the script is run in SpecRerun

\* ------------------------------------------------------- program constants
SeedIndex == 1     \* tallyArtists['artist_id'][1]
Expansions == 4    \* for i in range(0, 4)

Ids == 1..NumIds
None == "None"
\* a file this run has not written is <<>>, a written one is <<its table>>
NoFile == <<>>
Written(f) == f # NoFile
Content(f) == f[1]

Min(x, y) == IF x < y THEN x ELSE y
Range(s) == {s[k] : k \in 1..Len(s)}
\* all orderings of a finite set, as sequences without repetition
Perms(S) ==
    {p \in [1..Cardinality(S) -> S] : \A x, y \in 1..Cardinality(S) : x # y => p[x] # p[y]}
\* python indexing: seq[i] with i counted from 0
At(s, idx) == s[idx + 1]

VARIABLES
    df,              \* the listening history: a sequence of records
    related,         \* service: id -> the ids of its related artists, in order
    noImage,         \* service: ids of artists whose images list is empty
    canon,           \* service: id -> the id carried by the returned artist object
    transient,       \* whether calls can fail for reasons outside the data
    libTally,        \* {} or {t}: the table value_counts returned for df
    pc,              \* the statement the script is at
    failedAt,        \* the statement that raised, when pc = "failed"
    tallyArtists, topArtist,
    a, ra,           \* last artist object, last related-artists list
    links_dict, i, j,
    all_artist_ids, points_dict, n,
    linksFile, pointsFile,   \* what this run wrote to links.xlsx / points.xlsx
    log,             \* the run's external effects in order: calls, sleeps, writes
    runNo, prev      \* run counter; <<the outcome of the previous run>>, if any

env == <<df, related, noImage, canon, transient>>
prog == <<pc, failedAt, tallyArtists, topArtist, a, ra, links_dict, i, j,
          all_artist_ids, points_dict, n, linksFile, pointsFile, log>>
vars == <<env, libTally, prog, runNo, prev>>

\* ------------------------------------------------------------ the dataset
Rec(name, id) == [artist |-> name, artist_id |-> id]
\* (artist, artist_id) pairs that occur in the enumerated histories; the last
\* one is a second display name of artist 1
DfPairs == {Rec("A", 1), Rec("B", 2), Rec("C", 3), Rec("A2", 1)}

SeqsUpTo(S, len) == UNION {[1..m -> S] : m \in 0..len}

\* A = 5 plays, B = 3 plays, C = 1 play
ExampleDf ==
    <<Rec("A", 1), Rec("B", 2), Rec("A", 1), Rec("C", 3), Rec("A", 1),
      Rec("B", 2), Rec("A", 1), Rec("B", 2), Rec("A", 1)>>

Datasets == SeqsUpTo(DfPairs, MaxRows) \cup {ExampleDf}

\* no row, one artist, two artists played equally often, two artists of
\* which the first / the second is played more often
SmallDatasets ==
    { <<>>,
      <<Rec("A", 1)>>,
      <<Rec("A", 1), Rec("B", 2)>>,
      <<Rec("A", 1), Rec("B", 2), Rec("A", 1)>>,
      <<Rec("B", 2), Rec("A", 1), Rec("B", 2)>> }

\* df.value_counts(["artist", "artist_id"]): number of rows per pair
CountOf(d, p) == Cardinality({k \in 1..Len(d) : d[k] = p})
Groups(d) == Range(d)
TallyRow(d, p) == [artist |-> p.artist, artist_id |-> p.artist_id, counts |-> CountOf(d, p)]
\* ... sorted by count, descending; the order among equal counts is the
\* library's choice. reset_index gives the rows positions 0, 1, ...
SortedTallies(d) ==
    {t \in Perms({TallyRow(d, p) : p \in Groups(d)}) :
        \A k \in 1..(Len(t) - 1) : t[k].counts >= t[k + 1].counts}

SeedRowTop(t) == IF 0 < Len(t) THEN <<At(t, 0)>> ELSE <<>>
SeedRowLast(t) == IF 0 < Len(t) THEN <<t[Len(t)]>> ELSE <<>>
\* tallyArtists['artist_id'][1]: <<the row at position 1>>, or <<>> when the
\* table has no such position (the lookup raises)
SeedRow(t) == IF SeedIndex < Len(t) THEN <<At(t, SeedIndex)>> ELSE <<>>

\* ------------------------------------------------------------ the service
ArtistName(id) == <<"name", id>>
\* sp.artist(q): the artist object the service returns for id q
ArtistObject(q) ==
    LET c == canon[q] IN
    [id |-> c, name |-> ArtistName(c), followers |-> 100 * c, popularity |-> 10 * c,
     url |-> <<"url", c>>,
     images |-> IF c \in noImage THEN <<>> ELSE << <<"img", c>> >>]
\* sp.artist_related_artists(q)['artists']
RelatedArtists(q) == [k \in 1..Len(related[q]) |-> ArtistObject(related[q][k])]

\* The answers are built from a ring over the ids: the related artists of id
\* are id+1, id+2, ... (wrapping round), leaving out the id `avoid` that no one
\* is related to (none when avoid is not an id), cut to a length that is
\* `first` for artist 1 and `rest` for every other artist.
Ring(id, avoid) ==
    LET Keep(x) == x # avoid
    IN SelectSeq([k \in 1..(2 * MaxRel) |-> ((id + k - 1) % NumIds) + 1], Keep)
World(first, rest, avoid) ==
    [id \in Ids |-> SubSeq(Ring(id, avoid), 1, IF id = 1 THEN first ELSE rest)]
Worlds == {World(first, rest, avoid) : first \in 0..MaxRel, rest \in 0..MaxRel, avoid \in 0..NumIds}
Identity == [id \in Ids |-> id]
\* id 1 is an old id of artist 2: the service answers with artist 2's object
Alias == [id \in Ids |-> IF id = 1 THEN 2 ELSE id]
\* (noImage, canon)
Quirks == {<<{}, Identity>>, <<{1}, Identity>>, <<{}, Alias>>}

\* ------------------------------------------------------------ the program
EmptyLinks == [source_name |-> <<>>, source_id |-> <<>>, target_name |-> <<>>, target_id |-> <<>>]
EmptyPoints == [id |-> <<>>, name |-> <<>>, followers |-> <<>>, popularity |-> <<>>,
                url |-> <<>>, image |-> <<>>]

HasEdge(links, src, tgt) ==
    \E k \in 1..Len(links.source_id) :
        links.source_id[k] = src.id /\ links.target_id[k] = tgt.id
AppendEdgeOnce(links, src, tgt) ==
    IF HasEdge(links, src, tgt) THEN links
    ELSE [source_name |-> Append(links.source_name, src.name),
          source_id   |-> Append(links.source_id, src.id),
          target_name |-> Append(links.target_name, tgt.name),
          target_id   |-> Append(links.target_id, tgt.id)]
AppendEdgeSwapped(links, src, tgt) ==
    [source_name |-> Append(links.source_name, tgt.name),
     source_id   |-> Append(links.source_id, tgt.id),
     target_name |-> Append(links.target_name, src.name),
     target_id   |-> Append(links.target_id, src.id)]
\* the four appends of one pass of a links loop
AppendEdge(links, src, tgt) ==
    [source_name |-> Append(links.source_name, src.name),
     source_id   |-> Append(links.source_id, src.id),
     target_name |-> Append(links.target_name, tgt.name),
     target_id   |-> Append(links.target_id, tgt.id)]

LoopDoneEarly(idx) == idx >= Expansions - 1
\* for i in range(0, 4): the loop is over once i has run through 0..3
LoopDone(idx) == idx >= Expansions

\* links_dict['target_id'][i] is in range
HasTarget(links, idx) == idx < Len(links.target_id)
ExpansionTarget(links, idx) == At(links.target_id, idx)

TargetIdsOnly(links) == Range(links.target_id)
\* set(links_dict['source_id'] + links_dict['target_id'])
AllArtistIds(links) == Range(links.source_id \o links.target_id)
IdOrdersCut(links) ==
    {SubSeq(p, 1, Min(Len(p), 2)) : p \in Perms(AllArtistIds(links))}
\* list(set(...)): the set in whatever order the iteration yields
IdOrders(links) == Perms(AllArtistIds(links))

\* the five appends before the image lookup, and the image append
AppendAttrs(points, id, obj) ==
    [points EXCEPT !.id = Append(@, id), !.name = Append(@, obj.name),
                   !.followers = Append(@, obj.followers),
                   !.popularity = Append(@, obj.popularity),
                   !.url = Append(@, obj.url)]
AppendImage(points, obj) == [points EXCEPT !.image = Append(@, At(obj.images, 0))]

Event(op, id) == [op |-> op, id |-> id, at |-> pc]
NoSleep(l) == l
\* time.sleep(.5)
Sleep(l) == Append(l, Event("sleep", None))

InitProg ==
    /\ pc = "tally"
    /\ failedAt = None
    /\ tallyArtists = None
    /\ topArtist = None
    /\ a = None
    /\ ra = None
    /\ links_dict = None
    /\ i = 0
    /\ j = 0
    /\ all_artist_ids = None
    /\ points_dict = None
    /\ n = 0
    /\ linksFile = NoFile
    /\ pointsFile = NoFile
    /\ log = <<>>

Init ==
    /\ df \in SmallDatasets
    /\ related \in Worlds
    /\ \E q \in Quirks : noImage = q[1] /\ canon = q[2]
    /\ transient = TRUE
    /\ libTally = {}
    /\ InitProg
    /\ runNo = 1
    /\ prev = <<>>

AfterRaiseRetry(stmt) == stmt
\* nothing catches an exception: the statement that raises ends the run
AfterRaise(stmt) == "failed"
Raise == /\ pc' = AfterRaise(pc) /\ failedAt' = pc

\* lines 21-23
SeedSelection ==
    /\ pc = "tally"
    /\ \E t \in SortedTallies(df) :
        /\ libTally \in {{}, {t}}
        /\ libTally' = {t}
        /\ tallyArtists' = t
        /\ IF SeedRow(t) # <<>>
             THEN /\ topArtist' = SeedRow(t)[1].artist_id
                  /\ pc' = "seed_artist"
                  /\ UNCHANGED failedAt
             ELSE /\ Raise
                  /\ UNCHANGED topArtist
    /\ UNCHANGED <<env, a, ra, links_dict, i, j, all_artist_ids, points_dict, n,
                   linksFile, pointsFile, log, runNo, prev>>

\* line 27
SeedArtist ==
    /\ pc = "seed_artist"
    /\ log' = Append(log, Event("artist", topArtist))
    /\ \/ /\ a' = ArtistObject(topArtist)
          /\ pc' = "seed_related"
          /\ UNCHANGED failedAt
       \/ /\ transient
          /\ Raise
          /\ UNCHANGED a
    /\ UNCHANGED <<env, libTally, tallyArtists, topArtist, ra, links_dict, i, j,
                   all_artist_ids, points_dict, n, linksFile, pointsFile, runNo, prev>>

\* lines 28-31
SeedRelated ==
    /\ pc = "seed_related"
    /\ log' = Append(log, Event("related", topArtist))
    /\ \/ /\ ra' = RelatedArtists(topArtist)
          /\ links_dict' = EmptyLinks
          /\ j' = 0
          /\ pc' = "seed_links"
          /\ UNCHANGED failedAt
       \/ /\ transient
          /\ Raise
          /\ UNCHANGED <<ra, links_dict, j>>
    /\ UNCHANGED <<env, libTally, tallyArtists, topArtist, a, i,
                   all_artist_ids, points_dict, n, linksFile, pointsFile, runNo, prev>>

\* lines 32-36, one pass of the loop per step; leaving it enters the loop of line 39
SeedLinks ==
    /\ pc = "seed_links"
    /\ IF j < Len(ra)
         THEN /\ links_dict' = AppendEdge(links_dict, a, At(ra, j))
              /\ j' = j + 1
              /\ UNCHANGED <<pc, i>>
         ELSE /\ pc' = "exp_artist"
              /\ i' = 0
              /\ UNCHANGED <<links_dict, j>>
    /\ UNCHANGED <<env, libTally, failedAt, tallyArtists, topArtist, a, ra,
                   all_artist_ids, points_dict, n, linksFile, pointsFile, log, runNo, prev>>

\* lines 39-40: the loop test, the index into target_id, the call
ExpArtist ==
    /\ pc = "exp_artist"
    /\ \/ /\ LoopDone(i)
          /\ pc' = "export_links"
          /\ UNCHANGED <<a, log, failedAt>>
       \/ /\ ~LoopDone(i)
          /\ ~HasTarget(links_dict, i)
          /\ Raise
          /\ UNCHANGED <<a, log>>
       \/ /\ ~LoopDone(i)
          /\ HasTarget(links_dict, i)
          /\ log' = Append(log, Event("artist", ExpansionTarget(links_dict, i)))
          /\ \/ /\ a' = ArtistObject(ExpansionTarget(links_dict, i))
                /\ pc' = "exp_related"
                /\ UNCHANGED failedAt
             \/ /\ transient
                /\ Raise
                /\ UNCHANGED a
    /\ UNCHANGED <<env, libTally, tallyArtists, topArtist, ra, links_dict, i, j,
                   all_artist_ids, points_dict, n, linksFile, pointsFile, runNo, prev>>

\* line 41
ExpRelated ==
    /\ pc = "exp_related"
    /\ log' = Append(log, Event("related", ExpansionTarget(links_dict, i)))
    /\ \/ /\ ra' = RelatedArtists(ExpansionTarget(links_dict, i))
          /\ pc' = "exp_sleep"
          /\ UNCHANGED failedAt
       \/ /\ transient
          /\ Raise
          /\ UNCHANGED ra
    /\ UNCHANGED <<env, libTally, tallyArtists, topArtist, a, links_dict, i, j,
                   all_artist_ids, points_dict, n, linksFile, pointsFile, runNo, prev>>

\* line 42
ExpSleep ==
    /\ pc = "exp_sleep"
    /\ log' = Sleep(log)
    /\ j' = 0
    /\ pc' = "exp_links"
    /\ UNCHANGED <<env, libTally, failedAt, tallyArtists, topArtist, a, ra, links_dict, i,
                   all_artist_ids, points_dict, n, linksFile, pointsFile, runNo, prev>>

\* lines 43-47, one pass of the inner loop per step; leaving it ends the pass of line 39
ExpLinks ==
    /\ pc = "exp_links"
    /\ IF j < Len(ra)
         THEN /\ links_dict' = AppendEdge(links_dict, a, At(ra, j))
              /\ j' = j + 1
              /\ UNCHANGED <<pc, i>>
         ELSE /\ pc' = "exp_artist"
              /\ i' = i + 1
              /\ UNCHANGED <<links_dict, j>>
    /\ UNCHANGED <<env, libTally, failedAt, tallyArtists, topArtist, a, ra,
                   all_artist_ids, points_dict, n, linksFile, pointsFile, log, runNo, prev>>

\* lines 50-52
ExportLinks ==
    /\ pc = "export_links"
    /\ linksFile' = <<links_dict>>
    /\ log' = Append(log, Event("write", "links.xlsx"))
    /\ pc' = "ids"
    /\ UNCHANGED <<env, libTally, failedAt, tallyArtists, topArtist, a, ra, links_dict, i, j,
                   all_artist_ids, points_dict, n, pointsFile, runNo, prev>>

\* lines 58-60
CollectIds ==
    /\ pc = "ids"
    /\ all_artist_ids' \in IdOrders(links_dict)
    /\ points_dict' = EmptyPoints
    /\ n' = 0
    /\ pc' = "points"
    /\ UNCHANGED <<env, libTally, failedAt, tallyArtists, topArtist, a, ra, links_dict, i, j,
                   linksFile, pointsFile, log, runNo, prev>>

\* lines 61-69: the loop test, then one pass: the sleep, the call, the six appends
PointsLoop ==
    /\ pc = "points"
    /\ \/ /\ n >= Len(all_artist_ids)
          /\ pc' = "export_points"
          /\ UNCHANGED <<a, points_dict, n, log, failedAt>>
       \/ /\ n < Len(all_artist_ids)
          /\ LET id == At(all_artist_ids, n)
                 obj == ArtistObject(id)
             IN /\ log' = Append(Sleep(log), Event("artist", id))
                /\ \/ /\ Len(obj.images) > 0
                      /\ a' = obj
                      /\ points_dict' = AppendImage(AppendAttrs(points_dict, id, obj), obj)
                      /\ n' = n + 1
                      /\ UNCHANGED <<pc, failedAt>>
                   \/ /\ Len(obj.images) = 0
                      /\ a' = obj
                      /\ points_dict' = AppendAttrs(points_dict, id, obj)
                      /\ Raise
                      /\ UNCHANGED n
                   \/ /\ transient
                      /\ Raise
                      /\ UNCHANGED <<a, points_dict, n>>
    /\ UNCHANGED <<env, libTally, tallyArtists, topArtist, ra, links_dict, i, j,
                   all_artist_ids, linksFile, pointsFile, runNo, prev>>

\* lines 72-74
ExportPoints ==
    /\ pc = "export_points"
    /\ pointsFile' = <<points_dict>>
    /\ log' = Append(log, Event("write", "points.xlsx"))
    /\ pc' = "done"
    /\ UNCHANGED <<env, libTally, failedAt, tallyArtists, topArtist, a, ra, links_dict, i, j,
                   all_artist_ids, points_dict, n, linksFile, runNo, prev>>

Next ==
    \/ SeedSelection
    \/ SeedArtist
    \/ SeedRelated
    \/ SeedLinks
    \/ ExpArtist
    \/ ExpRelated
    \/ ExpSleep
    \/ ExpLinks
    \/ ExportLinks
    \/ CollectIds
    \/ PointsLoop
    \/ ExportPoints

Spec == Init /\ [][Next]_vars

\* ---- seed selection over every enumerated listening history, one service
TwoEach == World(2, 2, 0)
InitSeed ==
    /\ df \in Datasets
    /\ related = TwoEach
    /\ noImage = {}
    /\ canon = Identity
    /\ transient = TRUE
    /\ libTally = {}
    /\ InitProg
    /\ runNo = 1
    /\ prev = <<>>

SpecSeed == InitSeed /\ [][Next]_vars

\* ---- the script run again on the same input against the same answers
RowSet(points) ==
    {[id |-> points.id[k], name |-> points.name[k], followers |-> points.followers[k],
      popularity |-> points.popularity[k], url |-> points.url[k], image |-> points.image[k]] :
        k \in 1..Len(points.id)}
\* what a run leaves behind, the order of the node rows put aside
Outcome ==
    [status |-> pc, failedAt |-> failedAt,
     seed |-> IF failedAt = "tally" THEN <<>> ELSE <<topArtist>>,
     links |-> linksFile,
     rows |-> IF Written(pointsFile) THEN <<Len(Content(pointsFile).id)>> ELSE <<>>,
     points |-> IF Written(pointsFile) THEN RowSet(Content(pointsFile)) ELSE {}]

InitRerun ==
    /\ df \in SmallDatasets
    /\ related \in Worlds
    /\ \E q \in Quirks : noImage = q[1] /\ canon = q[2]
    /\ transient = FALSE
    /\ libTally = {}
    /\ InitProg
    /\ runNo = 1
    /\ prev = <<>>

\* a new interpreter on the same df: every program variable starts afresh;
\* value_counts is a function of df, so it returns the table it returned before
Rerun ==
    /\ pc \in {"done", "failed"}
    /\ runNo < MaxRuns
    /\ prev' = <<Outcome>>
    /\ runNo' = runNo + 1
    /\ pc' = "tally"
    /\ failedAt' = None
    /\ tallyArtists' = None
    /\ topArtist' = None
    /\ a' = None
    /\ ra' = None
    /\ links_dict' = None
    /\ i' = 0
    /\ j' = 0
    /\ all_artist_ids' = None
    /\ points_dict' = None
    /\ n' = 0
    /\ linksFile' = NoFile
    /\ pointsFile' = NoFile
    /\ log' = <<>>
    /\ UNCHANGED <<env, libTally>>

NextRerun == Next \/ Rerun

SpecRerun == InitRerun /\ [][NextRerun]_vars

\* ================================================================ claims
IsPrefix(s, t) == Len(s) <= Len(t) /\ SubSeq(t, 1, Len(s)) = s
RECURSIVE Flat(_)
Flat(ss) == IF Len(ss) = 0 THEN <<>> ELSE Head(ss) \o Flat(Tail(ss))
IsRelatedCall(e) == e.op = "related"
\* the statements before links_dict exists
BeforeLinks == {"tally", "seed_artist", "seed_related"}
LinksCreated == pc \notin BeforeLinks /\ ~(pc = "failed" /\ failedAt \in BeforeLinks)

\* ---- C1
DistinctCounts(d) == \A p, q \in Groups(d) : p # q => CountOf(d, p) # CountOf(d, q)
DistinctIds(d) == \A p, q \in Groups(d) : p # q => p.artist_id # q.artist_id
MorePlayed(d, p) == {q \in Groups(d) : CountOf(d, q) > CountOf(d, p)}

\* C1: once seed selection has run on a history with at least two distinct
\* (artist, artist_id) pairs whose counts are all different, the seed is the
\* artist_id of row 1 of the tally, which is the pair with exactly one pair
\* played more often; it is not the most played pair (and not its id, when
\* every pair has its own id). With A = 5, B = 3, C = 1 plays the seed is B.
C1_SeedIsSecondMostFrequent ==
    (pc # "tally" /\ Cardinality(Groups(df)) >= 2 /\ DistinctCounts(df)) =>
        /\ failedAt # "tally"
        /\ \E p \in Groups(df) :
              /\ Cardinality(MorePlayed(df, p)) = 1
              /\ tallyArtists[2] = TallyRow(df, p)
              /\ topArtist = p.artist_id
        /\ \A p \in Groups(df) :
              MorePlayed(df, p) = {} =>
                  /\ tallyArtists[2] # TallyRow(df, p)
                  /\ DistinctIds(df) => topArtist # p.artist_id
        /\ df = ExampleDf => topArtist = 2

C1_Witness ==
    /\ pc = "seed_artist"
    /\ Cardinality(Groups(df)) = 3
    /\ DistinctCounts(df)
    /\ topArtist = 2

\* ---- C6
\* C6: with fewer than two distinct (artist, artist_id) pairs in the history,
\* seed selection raises: the run is over at that statement, no seed is set,
\* no call has been made and neither file is written.
C6_TooFewArtistsFailsAtSeed ==
    (pc # "tally" /\ Cardinality(Groups(df)) < 2) =>
        /\ pc = "failed"
        /\ failedAt = "tally"
        /\ topArtist = None
        /\ log = <<>>
        /\ ~Written(linksFile)
        /\ ~Written(pointsFile)

C6_Witness ==
    /\ pc = "failed"
    /\ Cardinality(Groups(df)) = 1
    /\ Len(df) >= 2

\* ---- C2
SameLength(points) ==
    \A f \in {"name", "followers", "popularity", "url", "image"} : Len(points[f]) = Len(points.id)
EdgeIds(links) == Range(links.source_id) \cup Range(links.target_id)

\* C2: in a completed run the node table has exactly one row per distinct
\* artist id of the edge table: its ids are the source_ids and target_ids of
\* the edge table, no id is in two rows, and every row is a whole row.
C2_NodesAreTheEdgeIds ==
    pc = "done" =>
        LET L == Content(linksFile)
            P == Content(pointsFile)
        IN /\ Range(P.id) = EdgeIds(L)
           /\ Cardinality(Range(P.id)) = Len(P.id)
           /\ SameLength(P)
           /\ \A k \in 1..Len(P.id) :
                 \E m \in 1..Len(L.source_id) : P.id[k] \in {L.source_id[m], L.target_id[m]}

\* a completed run whose seed is no one's related artist and whose edge
\* table names some id more than once
C2_Witness ==
    /\ pc = "done"
    /\ Content(linksFile).source_id[1] \notin Range(Content(linksFile).target_id)
    /\ Len(Content(linksFile).target_id) > Cardinality(Range(Content(linksFile).target_id))
    /\ Len(Content(pointsFile).id) >= 3

\* ---- C3
RelatedCalls == SelectSeq(log, IsRelatedCall)
\* the columns the answer to related-artists call q contributes
SourceIdsOf(q) == [k \in 1..Len(related[q]) |-> canon[q]]
TargetIdsOf(q) == [k \in 1..Len(related[q]) |-> canon[related[q][k]]]
NamesOf(ids) == [k \in 1..Len(ids) |-> ArtistName(ids[k])]
PerCall(F(_)) == Flat([c \in 1..Len(RelatedCalls) |-> F(RelatedCalls[c].id)])

\* C3: a completed run made exactly five related-artists calls, the first for
\* the seed and four in the expansion loop, and the edge table is the answers
\* of these calls laid end to end in call order: as many rows as the five
\* lists have entries, none dropped, none merged.
C3_EdgesAreTheFiveAnswers ==
    pc = "done" =>
        LET L == Content(linksFile) IN
        /\ Len(RelatedCalls) = 1 + Expansions
        /\ RelatedCalls[1].at = "seed_related" /\ RelatedCalls[1].id = topArtist
        /\ \A c \in 2..Len(RelatedCalls) : RelatedCalls[c].at = "exp_related"
        /\ Len(L.source_id) = Len(PerCall(SourceIdsOf))
        /\ L.source_id = PerCall(SourceIdsOf)
        /\ L.target_id = PerCall(TargetIdsOf)
        /\ L.source_name = NamesOf(PerCall(SourceIdsOf))
        /\ L.target_name = NamesOf(PerCall(TargetIdsOf))

\* a completed run whose edge table holds the same edge twice
C3_Witness ==
    /\ pc = "done"
    /\ \E x, y \in 1..Len(Content(linksFile).source_id) :
          /\ x < y
          /\ Content(linksFile).source_id[x] = Content(linksFile).source_id[y]
          /\ Content(linksFile).target_id[x] = Content(linksFile).target_id[y]

\* ---- C4
\* positions of the log that hold the write of a file / a node fetch
WritesOf(file) == {k \in 1..Len(log) : log[k].op = "write" /\ log[k].id = file}
NodeFetches == {k \in 1..Len(log) : log[k].op = "artist" /\ log[k].at = "points"}
ExpansionEvents == {k \in 1..Len(log) : log[k].at \in {"seed_artist", "seed_related",
                                         "exp_artist", "exp_related", "exp_sleep"}}

\* C4: the stages run in program order. The edge file is written only once
\* the seed call and all four passes of the expansion loop are over; no node
\* fetch comes before that write; the node file is written only once every id
\* of the de-duplicated set has been fetched and has its row; and after the
\* edge file is written the edge list stays what was written.
C4_StagesInProgramOrder ==
    /\ Written(linksFile) =>
          /\ i = Expansions
          /\ Cardinality(WritesOf("links.xlsx")) = 1
          /\ Len(RelatedCalls) = 1 + Expansions
          /\ \A k \in ExpansionEvents : \A w \in WritesOf("links.xlsx") : k < w
          /\ links_dict = Content(linksFile)
    /\ ~Written(linksFile) => WritesOf("links.xlsx") = {} /\ ~Written(pointsFile)
    /\ \A k \in NodeFetches : \E w \in WritesOf("links.xlsx") : w < k
    /\ Written(pointsFile) =>
          /\ Cardinality(WritesOf("points.xlsx")) = 1
          /\ n = Len(all_artist_ids)
          /\ Range(all_artist_ids) = EdgeIds(Content(linksFile))
          /\ \A id \in EdgeIds(Content(linksFile)) :
                /\ \E k \in NodeFetches : log[k].id = id /\ \A w \in WritesOf("points.xlsx") : k < w
                /\ id \in Range(Content(pointsFile).id)
    /\ ~Written(pointsFile) => WritesOf("points.xlsx") = {}

\* a completed run that fetched at least two nodes
C4_Witness ==
    /\ pc = "done"
    /\ Cardinality(NodeFetches) >= 2
    /\ Len(Content(linksFile).source_id) >= 2

\* ---- C5
CallStatements == {"seed_artist", "seed_related", "exp_artist", "exp_related", "points"}
C5_State ==
    /\ failedAt # None => pc = "failed"
    /\ pc = "failed" =>
          /\ failedAt \in CallStatements \cup {"tally"}
          /\ failedAt \in {"tally", "seed_artist", "seed_related", "exp_artist", "exp_related"}
                => ~Written(linksFile) /\ ~Written(pointsFile)
          /\ failedAt = "points" => Written(linksFile) /\ ~Written(pointsFile)
          \* the last effect of the run is the call that failed, or, when the
          \* index into target_id raised, the last effect of the pass before
          /\ failedAt # "tally" =>
                LET e == log[Len(log)] IN
                \/ e.at = failedAt /\ e.op \in {"artist", "related"}
                \/ /\ failedAt = "exp_artist"
                   /\ ~HasTarget(links_dict, i)
                   /\ e.at \in {"seed_related", "exp_sleep"}
    \* an artist without images never gets past the node loop
    /\ pc \in {"export_points", "done"} => Range(all_artist_ids) \cap noImage = {}
    /\ Written(pointsFile) =>
          \A k \in 1..Len(Content(pointsFile).id) :
              /\ Content(pointsFile).id[k] \notin noImage
              /\ Content(pointsFile).image[k] = <<"img", Content(pointsFile).id[k]>>
C5_Step ==
    pc = "failed" =>
        /\ pc' = "failed"
        /\ log' = log
        /\ linksFile' = linksFile
        /\ pointsFile' = pointsFile

\* C5: a failed call, a failed read of an answer or an empty images list in
\* the node loop ends the run right there: the run never leaves the failed
\* state, makes no further call and writes no file. A failure in the seed or
\* expansion calls leaves neither file written, one in the node loop leaves
\* the edge file written and the node file not; every row of a written node
\* file carries an image of its artist.
C5_FailureIsFatal == []C5_State /\ [][C5_Step]_vars

\* the node loop met an artist without images after fetching another one
C5_Witness ==
    /\ pc = "failed"
    /\ failedAt = "points"
    /\ n >= 1
    /\ At(all_artist_ids, n) \in noImage

\* ---- C9
Sleeps == {k \in 1..Len(log) : log[k].op = "sleep"}
\* the effect a run shows at position k of its log, as far as the expansion
\* stage reaches: artist, related for the seed, then artist, related, sleep
\* in each pass, then the write of the edge file
ExpansionLen == 2 + 3 * Expansions
EffectAt(k) ==
    IF k <= 2 THEN <<"artist", "related">>[k]
    ELSE IF k <= ExpansionLen THEN <<"artist", "related", "sleep">>[((k - 3) % 3) + 1]
    ELSE IF k = ExpansionLen + 1 THEN "write"
    ELSE IF pc = "done" /\ k = Len(log) THEN "write"
    ELSE <<"sleep", "artist">>[((k - ExpansionLen - 2) % 2) + 1]

\* C9: the pauses of a run are exactly these: none between the seed's calls
\* and the first expansion call, one in each pass of the expansion loop after
\* the pass's artist and related-artists calls, and one before each node
\* fetch. A completed run pauses 4 + (number of distinct artist ids) times.
C9_PausesOnlyInTheLoops ==
    /\ \A k \in 1..Len(log) : log[k].op = EffectAt(k)
    /\ \A k \in Sleeps : log[k].at \in {"exp_sleep", "points"}
    /\ \A k \in NodeFetches : k - 1 \in Sleeps
    /\ pc = "done" =>
          /\ Cardinality(Sleeps) = Expansions + Cardinality(EdgeIds(Content(linksFile)))
          /\ Cardinality({k \in Sleeps : log[k].at = "exp_sleep"}) = Expansions

C9_Witness ==
    /\ pc = "done"
    /\ Cardinality(EdgeIds(Content(linksFile))) >= 3
    /\ Cardinality(Sleeps) = Expansions + 3

\* ---- C10
\* the service answered every artist call so far with the id it was asked for
Faithful == \A k \in 1..Len(log) : log[k].op = "artist" => canon[log[k].id] = log[k].id
EqualColumns(links) ==
    /\ Len(links.source_name) = Len(links.source_id)
    /\ Len(links.target_name) = Len(links.source_id)
    /\ Len(links.target_id) = Len(links.source_id)
RECURSIVE ReachableFrom(_, _)
ReachableFrom(S, links) ==
    LET step == S \cup {links.target_id[k] :
                          k \in {m \in 1..Len(links.source_id) : links.source_id[m] \in S}}
    IN IF step = S THEN S ELSE ReachableFrom(step, links)
C10_State ==
    /\ LinksCreated => EqualColumns(links_dict)
    /\ (LinksCreated /\ Faithful) =>
          \A k \in 1..Len(links_dict.source_id) :
              links_dict.source_id[k] # topArtist =>
                  \E m \in 1..(k - 1) : links_dict.target_id[m] = links_dict.source_id[k]
    /\ (Written(linksFile) /\ Faithful) =>
          EdgeIds(Content(linksFile)) \subseteq ReachableFrom({topArtist}, Content(linksFile))
C10_Step ==
    (LinksCreated /\ pc # "failed") =>
        /\ IsPrefix(links_dict.source_name, links_dict'.source_name)
        /\ IsPrefix(links_dict.source_id, links_dict'.source_id)
        /\ IsPrefix(links_dict.target_name, links_dict'.target_name)
        /\ IsPrefix(links_dict.target_id, links_dict'.target_id)

\* C10: from the moment the edge list exists its four columns have the same
\* length between appends of whole edges, and edges already appended are
\* neither changed nor removed. When the service answers each artist call
\* with the id it was asked for, every edge whose source is not the seed has
\* a source_id that is the target_id of an earlier row, so every id of the
\* exported edge table is reachable from the seed along edges.
C10_EdgesGrowFromTheSeed == []C10_State /\ [][C10_Step]_vars

\* an expansion pass has appended an edge whose source is not the seed
C10_Witness ==
    /\ pc = "exp_links"
    /\ j >= 1
    /\ Faithful
    /\ links_dict.source_id[Len(links_dict.source_id)] # topArtist

\* ---- C7
\* C7: a second run on the same history against the same answers ends as the
\* first one did: same final statement, same seed, the same edge table row
\* for row, and a node table with the same number of rows and the same set
\* of rows; only the order of the node rows may differ.
C7_RerunSameOutcome ==
    (prev # <<>> /\ pc \in {"done", "failed"}) => Outcome = prev[1]

\* the second run completed with a node table of at least three rows
C7_Witness ==
    /\ prev # <<>>
    /\ pc = "done"
    /\ prev[1].status = "done"
    /\ Len(Content(pointsFile).id) >= 3

\* ---- C8
ExpansionQueries == SelectSeq(log, LAMBDA e : e.op = "artist" /\ e.at = "exp_artist")
SeedRelatedIds == [k \in 1..Len(related[topArtist]) |-> canon[related[topArtist][k]]]

\* C8: in a completed run the artist queried in pass i (i = 0..3) of the
\* expansion loop is entry i of the seed's related-artists list, so every
\* expanded artist is a one-hop relation of the seed, also when that list has
\* fewer than four entries.
C8_ExpandsSeedsRelatedArtists ==
    pc = "done" =>
        /\ Len(ExpansionQueries) = Expansions
        /\ \A k \in 1..Len(ExpansionQueries) :
              /\ ExpansionQueries[k].id \in Range(SeedRelatedIds)
              /\ k <= Len(SeedRelatedIds) => ExpansionQueries[k].id = SeedRelatedIds[k]

====
